---- MODULE Spec2Model ----
(***************************************************************************)
(* Advisory reader-writer file locks (async-fd-lock).                      *)
(*                                                                         *)
(* The model follows the Unix build.  Every Lock Container wraps an        *)
(* independently opened handle of one file, hence one open file            *)
(* description; flock(2) keeps one lock per open file description, and     *)
(* handles duplicated from a container share its description.  An          *)
(* acquisition occupies a slot from the call until its guard (or its       *)
(* unconsumed token) is gone.                                              *)
(***************************************************************************)
EXTENDS Integers, FiniteSets, Sequences, TLC

\* Bounds of the model: containers (independently opened handles of the one
\* file), acquisitions begun, OS errors injected.
NumCont == 2
MaxOps == 3
MaxFaults == 1

Cont == 1..NumCont

\* Two acquisitions can be under way or hold a guard at the same time.
Slot == {1, 2}

VARIABLES
    lockTable,   \* the OS lock table: open file description -> "none" | "shared" | "exclusive"
    container,   \* Lock Container -> "open" (with the caller) | "moved" (inside an owned call or guard) | "closed"
    acq,         \* slot -> the acquisition occupying it
    ops,         \* acquisitions begun so far
    faults       \* OS errors injected so far

vars == <<lockTable, container, acq, ops, faults>>

----------------------------------------------------------------------------
(* The native layer.                                                       *)

\* A selection that ignores the policy and always asks for the waiting form.
FlockOperation_always_waits(WRITE, BLOCK) ==
    IF WRITE THEN "LockExclusive" ELSE "LockShared"

\* A selection that asks for the other mode.
FlockOperation_other_mode(WRITE, BLOCK) ==
    CASE ~WRITE /\ ~BLOCK -> "NonBlockingLockExclusive"
      [] ~WRITE /\ BLOCK  -> "LockExclusive"
      [] WRITE /\ ~BLOCK  -> "NonBlockingLockShared"
      [] WRITE /\ BLOCK   -> "LockShared"

\* sys/unix/mod.rs: the (WRITE, BLOCK) pair selects the flock operation.
FlockOperation(WRITE, BLOCK) ==
    CASE ~WRITE /\ ~BLOCK -> "NonBlockingLockShared"
      [] ~WRITE /\ BLOCK  -> "LockShared"
      [] WRITE /\ ~BLOCK  -> "NonBlockingLockExclusive"
      [] WRITE /\ BLOCK   -> "LockExclusive"

OpMode(operation) ==
    IF operation \in {"NonBlockingLockExclusive", "LockExclusive"}
    THEN "exclusive" ELSE "shared"

OpNonBlocking(operation) ==
    operation \in {"NonBlockingLockShared", "NonBlockingLockExclusive"}

\* The Windows build: the flags given to LockFileEx for (WRITE, BLOCK).
LockFileExFlags(WRITE, BLOCK) ==
    (IF WRITE THEN {"LOCKFILE_EXCLUSIVE_LOCK"} ELSE {})
        \cup (IF BLOCK THEN {} ELSE {"LOCKFILE_FAIL_IMMEDIATELY"})

\* Another open file description holds a lock that excludes `mode` for c.
Conflicts(lt, c, mode) ==
    \E d \in Cont \ {c} :
        IF mode = "exclusive" THEN lt[d] # "none" ELSE lt[d] = "exclusive"

\* flock(2) on a handle of description c.  A request of the mode already held
\* is a no-op; a request of the other mode first removes the held lock, then
\* establishes the new one, fails (non-blocking) or sleeps (blocking).
compatible_unix_lock(lt, c, operation) ==
    IF operation = "Unlock"
    THEN [lt |-> [lt EXCEPT ![c] = "none"], ret |-> "Ok"]
    ELSE LET mode == OpMode(operation)
             removed == [lt EXCEPT ![c] = "none"]
         IN  IF lt[c] = mode
             THEN [lt |-> lt, ret |-> "Ok"]
             ELSE IF ~Conflicts(removed, c, mode)
             THEN [lt |-> [lt EXCEPT ![c] = mode], ret |-> "Ok"]
             ELSE IF OpNonBlocking(operation)
             THEN [lt |-> removed, ret |-> "EWOULDBLOCK"]
             ELSE [lt |-> removed, ret |-> "Sleep"]

\* io::Error::kind() of an OS error number.
ErrorKind(errno) ==
    CASE errno = "EWOULDBLOCK" -> "WouldBlock"
      [] errno = "EEXIST"      -> "AlreadyExists"
      [] errno = "EACCES"      -> "PermissionDenied"
      [] errno = "EINTR"       -> "Interrupted"
      [] errno = "EMFILE"      -> "Uncategorized"

\* The error numbers by which the OS reports that a non-blocking request
\* found the lock held.
ContentionErrnos == {"EWOULDBLOCK", "EEXIST"}

\* A non-blocking branch that hands the native error on as it is.
map_err_keeps(kind) == kind

\* A non-blocking branch that reports every error as contention.
map_err_all_contention(kind) == "WouldBlock"

\* The map_err of the non-blocking branch.
map_err(kind) ==
    IF kind = "AlreadyExists" THEN "WouldBlock" ELSE kind

\* Errors the OS may raise on a lock request besides contention; only a
\* request that may wait can be interrupted by a signal.
NativeFaults(BLOCK) ==
    IF BLOCK THEN {"EACCES", "EINTR"} ELSE {"EACCES"}

\* acquire: the native request and the classification of its error.
\* `fault` is "none" or the error number the OS raises instead of serving it;
\* `busy` is the error number by which the OS reports contention.
acquire_lock_blocking(lt, c, WRITE, BLOCK, fault, busy) ==
    LET operation == FlockOperation(WRITE, BLOCK)
        served == compatible_unix_lock(lt, c, operation)
        result == IF fault # "none" THEN [lt |-> lt, ret |-> fault]
                  ELSE IF served.ret = "EWOULDBLOCK"
                  THEN [served EXCEPT !.ret = busy]
                  ELSE served
    IN  IF result.ret \in {"Ok", "Sleep"}
        THEN result
        ELSE [lt |-> result.lt,
              ret |-> IF BLOCK THEN ErrorKind(result.ret)
                      ELSE map_err(ErrorKind(result.ret))]

\* release: flock(LOCK_UN) through any handle of description c.
release_lock_blocking(lt, c) ==
    compatible_unix_lock(lt, c, "Unlock").lt

\* The Windows build: the non-blocking branch looks at the raw OS code of
\* the error of LockFileEx; the blocking branch hands the error on.
windows_map_err(code, BLOCK) ==
    IF ~BLOCK /\ code = "ERROR_LOCK_VIOLATION" THEN "WouldBlock"
    ELSE CASE code = "ERROR_LOCK_VIOLATION" -> "Uncategorized"
           [] code = "ERROR_ACCESS_DENIED"  -> "PermissionDenied"
           [] code = "ERROR_INVALID_HANDLE" -> "Uncategorized"

----------------------------------------------------------------------------
(* Slots, tokens and guards.                                               *)

\* A slot nobody occupies.
IdleSlot ==
    [cont |-> 0, write |-> FALSE, block |-> FALSE, async |-> FALSE,
     owned |-> FALSE, pc |-> "idle", caller |-> "none", res |-> "none",
     worker |-> "none", token |-> "none", dup |-> "none", guard |-> "none",
     nAcq |-> 0, nRel |-> 0]

\* The slot of a call just made on container c.
NewSlot(c, WRITE, BLOCK, async, owned) ==
    [IdleSlot EXCEPT !.cont = c, !.write = WRITE, !.block = BLOCK,
                     !.async = async, !.owned = owned, !.caller = "awaiting"]

Free(a) == acq[a].pc \in {"idle", "done"}

LowestFree == CHOOSE a \in Slot : Free(a) /\ \A b \in Slot : Free(b) => a <= b

\* The in-process aliasing rules: a pending call or a live guard of a
\* borrowed variant borrows its container (&self for read, &mut self for
\* write); an owned variant takes the container by value.
Borrows(a) ==
    /\ acq[a].pc \notin {"idle", "done"}
    /\ acq[a].caller # "cancelled"
    /\ ~acq[a].owned

\* A container nothing has touched yet.  Such containers are
\* interchangeable, so calls take them in order.
Fresh(d) ==
    /\ container[d] = "open"
    /\ lockTable[d] = "none"
    /\ \A a \in Slot : acq[a].cont # d

CanCall(c, WRITE, owned) ==
    /\ container[c] = "open"
    /\ \A d \in Cont : d < c => ~Fresh(d)
    /\ \A a \in Slot :
          (acq[a].cont = c /\ Borrows(a)) => (~WRITE /\ ~owned /\ ~acq[a].write)

\* LockGuard::new: the token owns the duplicated handle of a locked file.
LockGuard_new(s) ==
    [s EXCEPT !.token = "armed", !.nAcq = @ + 1, !.res = "Ok"]

\* A defuse that keeps the duplicated handle open.
defuse_keeps_handle(s) ==
    [s EXCEPT !.token = "defused"]

\* A defuse that releases before it lets the handle go.
defuse_releases(s) ==
    [s EXCEPT !.token = "defused", !.dup = "closed", !.nRel = @ + 1]

\* LockGuard::defuse: the handle is taken out; the caller lets it go.
defuse(s) ==
    [s EXCEPT !.token = "defused", !.dup = "closed"]

\* A guard built while its token stays armed.
defuse_with_keeps_token(s) ==
    [s EXCEPT !.guard = "alive", !.pc = "guard", !.caller = "returned"]

\* LockGuard::defuse_with(|_| Guard::new(..)): the guard is built from the token.
defuse_with(s) ==
    [defuse(s) EXCEPT !.guard = "alive", !.pc = "guard", !.caller = "returned"]

\* A token whose drop only closes its handle: no release is made.
LockGuard_drop_forgets(s, lt) ==
    IF s.token = "armed"
    THEN [s  |-> [s EXCEPT !.token = "disposed", !.dup = "closed"], lt |-> lt]
    ELSE [s |-> s, lt |-> lt]

\* A token whose drop makes a release that does not reach the lock table.
LockGuard_drop_keeps_lock(s, lt) ==
    IF s.token = "armed"
    THEN [s  |-> [s EXCEPT !.token = "disposed", !.nRel = @ + 1, !.dup = "closed"],
          lt |-> lt]
    ELSE [s |-> s, lt |-> lt]

\* Drop for LockGuard: an armed token releases through its handle.
LockGuard_drop(s, lt) ==
    IF s.token = "armed"
    THEN [s  |-> [s EXCEPT !.token = "disposed", !.nRel = @ + 1, !.dup = "closed"],
          lt |-> release_lock_blocking(lt, s.cont)]
    ELSE [s |-> s, lt |-> lt]

\* A guard whose drop leaves the lock in the lock table.
Guard_drop_keeps_lock(s, lt) ==
    IF s.guard = "alive"
    THEN [s  |-> [s EXCEPT !.guard = "dropped", !.nRel = @ + 1, !.pc = "done"],
          lt |-> lt]
    ELSE [s |-> [s EXCEPT !.pc = "done"], lt |-> lt]

\* Drop of a guard (borrowed or owned): release through the container's handle.
Guard_drop(s, lt) ==
    IF s.guard = "alive"
    THEN [s  |-> [s EXCEPT !.guard = "dropped", !.nRel = @ + 1, !.pc = "done"],
          lt |-> release_lock_blocking(lt, s.cont)]
    ELSE [s |-> [s EXCEPT !.pc = "done"], lt |-> lt]

\* A release() whose guard still releases when it is dropped afterwards.
Guard_release_drop_releases(s, lt) ==
    LET taken == [s EXCEPT !.guard = "released", !.nRel = @ + 2, !.pc = "done"]
    IN  [s |-> taken, lt |-> release_lock_blocking(lt, s.cont)]

\* Guard::release: the file is taken out and released; the drop that follows
\* finds no file and does nothing.
Guard_release(s, lt) ==
    LET taken == [s EXCEPT !.guard = "released", !.nRel = @ + 1]
    IN  Guard_drop(taken, release_lock_blocking(lt, s.cont))

\* A failed duplication that is recorded but goes on to spawn the worker.
dup_failed_spawns(s) ==
    [s EXCEPT !.pc = "dispatched", !.worker = "spawned", !.res = ErrorKind("EMFILE")]

\* The early return of a failed handle duplication.
dup_failed(s) ==
    [s EXCEPT !.pc = "done", !.caller = "returned", !.res = ErrorKind("EMFILE")]

\* A worker that keeps the duplicated handle open after a failed acquire.
worker_result_leaks_handle(s, r) ==
    IF r.ret = "Ok" THEN [LockGuard_new(s) EXCEPT !.pc = "completed"]
    ELSE IF r.ret = "Sleep" THEN [s EXCEPT !.pc = "native"]
    ELSE [s EXCEPT !.pc = "completed", !.res = r.ret]

\* The worker's closure: the native acquire on the duplicated handle, mapped
\* into a token on success; on failure the handle goes with the closure.
worker_result(s, r) ==
    IF r.ret = "Ok" THEN [LockGuard_new(s) EXCEPT !.pc = "completed"]
    ELSE IF r.ret = "Sleep" THEN [s EXCEPT !.pc = "native"]
    ELSE [s EXCEPT !.pc = "completed", !.res = r.ret, !.dup = "closed"]

\* A synchronous call that hands out its guard whatever the native call said.
sync_result_always_guard(s, r) ==
    IF r.ret = "Sleep" THEN [s EXCEPT !.pc = "native"]
    ELSE [s EXCEPT !.nAcq = @ + 1, !.res = "Ok", !.guard = "alive",
                   !.pc = "guard", !.caller = "returned"]

\* The synchronous entry points: the calling thread makes the native call
\* and builds the guard itself.  The owned form (LockRead / LockWrite over
\* acquire_lock_blocking) duplicates the handle and passes a token; the
\* borrowed form (RwLock::read / try_read / write / try_write) has neither.
sync_result(s, r) ==
    IF r.ret = "Ok"
    THEN IF s.owned THEN defuse_with(LockGuard_new(s))
         ELSE [s EXCEPT !.nAcq = @ + 1, !.res = "Ok", !.guard = "alive",
                        !.pc = "guard", !.caller = "returned"]
    ELSE IF r.ret = "Sleep" THEN [s EXCEPT !.pc = "native"]
    ELSE [s EXCEPT !.pc = "done", !.caller = "returned", !.res = r.ret,
                   !.dup = IF s.dup = "open" THEN "closed" ELSE s.dup]

\* An owned call that keeps the container whatever its outcome.
container_after_consumes(s, before) ==
    IF ~s.owned THEN before ELSE "moved"

\* The container after a call on it ended as slot record s describes.
container_after(s, before) ==
    IF ~s.owned THEN before
    ELSE IF s.pc = "done" /\ s.caller = "returned" /\ s.guard = "none" THEN "open"
    ELSE "moved"

\* What is left of a call that is over: its container, how it ended and its
\* resource counts.
finished(s) ==
    IF s.pc = "done"
    THEN [s EXCEPT !.write = FALSE, !.block = FALSE, !.async = FALSE]
    ELSE s

FaultChoices(BLOCK) ==
    IF faults < MaxFaults THEN NativeFaults(BLOCK) \cup {"none"} ELSE {"none"}

FaultCount(fault) == IF fault = "none" THEN faults ELSE faults + 1

\* What a guard lets its holder do with the wrapped stream: its own methods
\* and the stream traits it implements (the asynchronous ones with the
\* "async" feature).
GuardOps(WRITE) ==
    LET common == {"inner", "inner_mut", "inner_pin_mut", "release",
                   "Read", "BufRead", "Seek",
                   "AsyncRead", "AsyncBufRead", "AsyncSeek"}
    IN  IF WRITE THEN common \cup {"Write", "AsyncWrite"} ELSE common

\* The operations through which the file can be written: the write traits,
\* and the accessors that hand out the stream itself mutably (&mut T,
\* Pin<&mut T>), on which every operation of the stream can be called.
WritesFile(op) ==
    op \in {"Write", "AsyncWrite", "inner_mut", "inner_pin_mut"}

ReadsFile(op) ==
    op \in {"Read", "BufRead", "AsyncRead", "AsyncBufRead", "inner",
            "inner_mut", "inner_pin_mut"}

----------------------------------------------------------------------------
(* Actions.                                                                *)

Init ==
    /\ lockTable = [c \in Cont |-> "none"]
    /\ container = [c \in Cont |-> "open"]
    /\ acq = [a \in Slot |-> IdleSlot]
    /\ ops = 0
    /\ faults = 0

\* A synchronous call: read / try_read / write / try_write and lock_read /
\* try_lock_read / lock_write / try_lock_write.
SyncCall(c, WRITE, BLOCK, owned) ==
    /\ ops < MaxOps
    /\ \E a \in Slot : Free(a)
    /\ CanCall(c, WRITE, owned)
    /\ \E fault \in FaultChoices(BLOCK), busy \in ContentionErrnos :
          LET a  == LowestFree
              s0 == NewSlot(c, WRITE, BLOCK, FALSE, owned)
              s1 == IF owned THEN [s0 EXCEPT !.dup = "open"] ELSE s0
              r  == acquire_lock_blocking(lockTable, c, WRITE, BLOCK, fault, busy)
              s2 == sync_result(s1, r)
          IN  /\ acq' = [acq EXCEPT ![a] = finished(s2)]
              /\ lockTable' = r.lt
              /\ container' = [container EXCEPT ![c] = container_after(s2, @)]
              /\ faults' = FaultCount(fault)
    /\ ops' = ops + 1

\* A synchronous owned call whose handle duplication fails.
SyncCallDupFails(c, WRITE, BLOCK) ==
    /\ ops < MaxOps
    /\ faults < MaxFaults
    /\ \E a \in Slot : Free(a)
    /\ CanCall(c, WRITE, TRUE)
    /\ LET a  == LowestFree
           s1 == dup_failed(NewSlot(c, WRITE, BLOCK, FALSE, TRUE))
       IN  /\ acq' = [acq EXCEPT ![a] = finished(s1)]
           /\ container' = [container EXCEPT ![c] = container_after(s1, @)]
    /\ ops' = ops + 1
    /\ faults' = faults + 1
    /\ UNCHANGED lockTable

\* The first poll of an asynchronous call: the handle is duplicated.
AsyncCall(c, WRITE, BLOCK, owned) ==
    /\ ops < MaxOps
    /\ \E a \in Slot : Free(a)
    /\ CanCall(c, WRITE, owned)
    /\ LET a  == LowestFree
           s1 == [NewSlot(c, WRITE, BLOCK, TRUE, owned) EXCEPT
                     !.pc = "duplicated", !.dup = "open"]
       IN  /\ acq' = [acq EXCEPT ![a] = finished(s1)]
           /\ container' = [container EXCEPT ![c] = container_after(s1, @)]
    /\ ops' = ops + 1
    /\ UNCHANGED <<lockTable, faults>>

\* The first poll of an asynchronous call whose handle duplication fails.
AsyncCallDupFails(c, WRITE, BLOCK, owned) ==
    /\ ops < MaxOps
    /\ faults < MaxFaults
    /\ \E a \in Slot : Free(a)
    /\ CanCall(c, WRITE, owned)
    /\ LET a  == LowestFree
           s1 == dup_failed(NewSlot(c, WRITE, BLOCK, TRUE, owned))
       IN  /\ acq' = [acq EXCEPT ![a] = finished(s1)]
           /\ container' = [container EXCEPT ![c] = container_after(s1, @)]
    /\ ops' = ops + 1
    /\ faults' = faults + 1
    /\ UNCHANGED lockTable

\* A poll that makes the native call on the calling task instead of
\* handing it to a worker.
Spawn_on_caller(a) ==
    /\ acq[a].pc = "duplicated"
    /\ LET r == acquire_lock_blocking(lockTable, acq[a].cont, acq[a].write,
                                      acq[a].block, "none", "EWOULDBLOCK")
       IN  /\ acq' = [acq EXCEPT ![a] = finished(worker_result(@, r))]
           /\ lockTable' = r.lt
    /\ UNCHANGED <<container, ops, faults>>

\* The same poll goes on: the channel is made and the worker spawned.
Spawn(a) ==
    /\ acq[a].pc = "duplicated"
    /\ acq' = [acq EXCEPT ![a].pc = "dispatched", ![a].worker = "spawned"]
    /\ UNCHANGED <<lockTable, container, ops, faults>>

\* The worker makes the native call on the duplicated handle.
WorkerAcquire(a) ==
    /\ acq[a].pc = "dispatched"
    /\ \E fault \in FaultChoices(acq[a].block), busy \in ContentionErrnos :
          LET r == acquire_lock_blocking(lockTable, acq[a].cont, acq[a].write,
                                         acq[a].block, fault, busy)
          IN  /\ acq' = [acq EXCEPT ![a] = finished(worker_result(@, r))]
              /\ lockTable' = r.lt
              /\ faults' = FaultCount(fault)
    /\ UNCHANGED <<container, ops>>

\* A thread asleep in the native call is served once nothing conflicts.
Wake(a) ==
    /\ acq[a].pc = "native"
    /\ LET r == acquire_lock_blocking(lockTable, acq[a].cont, acq[a].write,
                                      acq[a].block, "none", "EWOULDBLOCK")
           s == IF acq[a].async THEN worker_result(acq[a], r)
                ELSE sync_result(acq[a], r)
       IN  /\ r.ret = "Ok"
           /\ acq' = [acq EXCEPT ![a] = finished(s)]
           /\ lockTable' = r.lt
    /\ UNCHANGED <<container, ops, faults>>

\* A worker that sends a token but ends without sending when the native
\* call failed.
WorkerSend_silent_on_error(a) ==
    /\ acq[a].pc = "completed"
    /\ IF acq[a].caller = "awaiting"
       THEN /\ acq' = [acq EXCEPT
                         ![a].pc = IF acq[a].res = "Ok" THEN "sent" ELSE "closed",
                         ![a].worker = "ended"]
            /\ UNCHANGED lockTable
       ELSE LET d == LockGuard_drop(acq[a], lockTable)
            IN  /\ acq' = [acq EXCEPT ![a] = finished([d.s EXCEPT !.pc = "done", !.worker = "ended"])]
                /\ lockTable' = d.lt
    /\ UNCHANGED <<container, ops, faults>>

\* The worker sends its result; a send nobody can receive hands the value
\* back, and the worker drops it.
WorkerSend(a) ==
    /\ acq[a].pc = "completed"
    /\ IF acq[a].caller = "awaiting"
       THEN /\ acq' = [acq EXCEPT ![a].pc = "sent", ![a].worker = "ended"]
            /\ UNCHANGED lockTable
       ELSE LET d == LockGuard_drop(acq[a], lockTable)
            IN  /\ acq' = [acq EXCEPT ![a] = finished([d.s EXCEPT !.pc = "done", !.worker = "ended"])]
                /\ lockTable' = d.lt
    /\ UNCHANGED <<container, ops, faults>>

\* What the caller makes of the value it received: a token becomes the
\* guard, an error goes back with the container.
recv_result(s) ==
    IF s.res = "Ok" THEN defuse_with(s)
    ELSE [s EXCEPT !.pc = "done", !.caller = "returned"]

\* The awaiting caller receives the result.
Recv(a) ==
    /\ acq[a].pc = "sent"
    /\ acq[a].caller = "awaiting"
    /\ LET s == recv_result(acq[a])
       IN  /\ acq' = [acq EXCEPT ![a] = finished(s)]
           /\ container' = [container EXCEPT
                 ![acq[a].cont] = container_after(s, @)]
    /\ UNCHANGED <<lockTable, ops, faults>>

\* A cancellation that takes the worker down with the future.
Cancel_stops_worker(a) ==
    /\ acq[a].async
    /\ acq[a].caller = "awaiting"
    /\ acq[a].pc \in {"dispatched", "native", "completed", "sent"}
    /\ LET d == LockGuard_drop([acq[a] EXCEPT !.caller = "cancelled"], lockTable)
       IN  /\ acq' = [acq EXCEPT ![a] = finished([d.s EXCEPT
                         !.pc = "done", !.worker = "ended", !.dup = "closed"])]
           /\ lockTable' = d.lt
    /\ container' = [container EXCEPT
          ![acq[a].cont] = IF acq[a].owned THEN "closed" ELSE @]
    /\ UNCHANGED <<ops, faults>>

\* The caller drops the awaiting future.  A result already in the channel
\* is dropped with the receiver; an owned call's future holds the container.
Cancel(a) ==
    /\ acq[a].async
    /\ acq[a].caller = "awaiting"
    /\ acq[a].pc \in {"dispatched", "native", "completed", "sent"}
    /\ LET s0 == [acq[a] EXCEPT !.caller = "cancelled"]
           d  == IF acq[a].pc = "sent" THEN LockGuard_drop(s0, lockTable)
                 ELSE [s |-> s0, lt |-> lockTable]
           s1 == IF acq[a].pc = "sent" THEN [d.s EXCEPT !.pc = "done"] ELSE d.s
       IN  /\ acq' = [acq EXCEPT ![a] = finished(s1)]
           /\ lockTable' = d.lt
    /\ container' = [container EXCEPT
          ![acq[a].cont] = IF acq[a].owned THEN "closed" ELSE @]
    /\ UNCHANGED <<ops, faults>>

\* A guard goes out of scope; an owned guard takes its container with it.
DropGuard(a) ==
    /\ acq[a].pc = "guard"
    /\ LET d == Guard_drop(acq[a], lockTable)
       IN  /\ acq' = [acq EXCEPT ![a] = finished(d.s)]
           /\ lockTable' = d.lt
    /\ container' = [container EXCEPT
          ![acq[a].cont] = IF acq[a].owned THEN "closed" ELSE @]
    /\ UNCHANGED <<ops, faults>>

\* release() on a guard that holds the file by value hands the file back.
ReleaseGuard(a) ==
    /\ acq[a].pc = "guard"
    /\ acq[a].owned
    /\ LET d == Guard_release(acq[a], lockTable)
       IN  /\ acq' = [acq EXCEPT ![a] = finished(d.s)]
           /\ lockTable' = d.lt
    /\ container' = [container EXCEPT ![acq[a].cont] = "open"]
    /\ UNCHANGED <<ops, faults>>

Next ==
    \/ \E c \in Cont, W \in BOOLEAN, B \in BOOLEAN, o \in BOOLEAN : SyncCall(c, W, B, o)
    \/ \E c \in Cont, W \in BOOLEAN, B \in BOOLEAN : SyncCallDupFails(c, W, B)
    \/ \E c \in Cont, W \in BOOLEAN, B \in BOOLEAN, o \in BOOLEAN : AsyncCall(c, W, B, o)
    \/ \E c \in Cont, W \in BOOLEAN, B \in BOOLEAN, o \in BOOLEAN : AsyncCallDupFails(c, W, B, o)
    \/ \E a \in Slot : Spawn(a)
    \/ \E a \in Slot : WorkerAcquire(a)
    \/ \E a \in Slot : Wake(a)
    \/ \E a \in Slot : WorkerSend(a)
    \/ \E a \in Slot : Recv(a)
    \/ \E a \in Slot : Cancel(a)
    \/ \E a \in Slot : DropGuard(a)
    \/ \E a \in Slot : ReleaseGuard(a)

Spec == Init /\ [][Next]_vars

\* A timed acquisition that forgets to report the elapsed timer.
timeout_result_passes(s) ==
    IF s.caller = "returned" THEN s.res ELSE "none"

\* An acquisition raced against a timer (time::timeout): the timer firing
\* drops the future, and the elapsed timer is reported as WouldBlock;
\* otherwise the result is the acquisition's own.
timeout_result(s) ==
    IF s.caller = "cancelled" THEN "WouldBlock"
    ELSE IF s.caller = "returned" THEN s.res
    ELSE "none"

\* One try acquisition on container c, run to its end with nothing else
\* going on, by the variant named: the synchronous call, or the asynchronous
\* one through its worker, the channel and the receiving caller; borrowed
\* or owned.  The outcome is the guard or the error kind, the lock table
\* the call leaves, and where the container is afterwards.
try_lock(lt, c, WRITE, async, owned) ==
    LET r  == acquire_lock_blocking(lt, c, WRITE, FALSE, "none", "EWOULDBLOCK")
        s0 == NewSlot(c, WRITE, FALSE, async, owned)
        w  == worker_result([s0 EXCEPT !.pc = "dispatched", !.dup = "open",
                                       !.worker = "spawned"], r)
        s  == IF async
              THEN recv_result([w EXCEPT !.pc = "sent", !.worker = "ended"])
              ELSE sync_result(IF owned THEN [s0 EXCEPT !.dup = "open"] ELSE s0, r)
    IN  [result    |-> IF s.guard = "alive" THEN "guard" ELSE s.res,
         lt        |-> r.lt,
         container |-> container_after(s, "open")]

----------------------------------------------------------------------------
(* The native release failing.                                             *)

\* Container c's open file description stays open when slot a lets go of
\* its handle: the container's own handle or another duplicate is open.
StaysOpen(c, a, cont) ==
    \/ cont[c] # "closed"
    \/ \E b \in Slot \ {a} : acq[b].cont = c /\ acq[b].dup = "open"

\* The lock table after a release that the OS refused and the closing of
\* the handle that follows, if any: the lock stays while the description
\* is open and goes with its last handle.
release_refused(lt, c, a, cont) ==
    IF StaysOpen(c, a, cont) THEN lt ELSE [lt EXCEPT ![c] = "none"]

\* A guard drop that unwraps the result of the release.
Guard_drop_release_panics(s) ==
    [s EXCEPT !.guard = "dropped", !.nRel = @ + 1, !.pc = "panicked"]

\* Drop of a guard whose release fails: `let _ = release` discards the
\* error and the drop ends as any other.
Guard_drop_release_fails(s) ==
    [s EXCEPT !.guard = "dropped", !.nRel = @ + 1, !.pc = "done"]

\* Drop of an armed token whose release fails: the error is discarded and
\* the handle goes with the token.
LockGuard_drop_release_fails(s) ==
    [s EXCEPT !.token = "disposed", !.nRel = @ + 1, !.dup = "closed"]

\* A guard goes out of scope and the OS refuses the release.
DropGuardReleaseFails(a) ==
    /\ acq[a].pc = "guard"
    /\ faults < MaxFaults
    /\ LET cont == [container EXCEPT
                      ![acq[a].cont] = IF acq[a].owned THEN "closed" ELSE @]
       IN  /\ acq' = [acq EXCEPT ![a] = finished(Guard_drop_release_fails(@))]
           /\ container' = cont
           /\ lockTable' = release_refused(lockTable, acq[a].cont, a, cont)
    /\ faults' = faults + 1
    /\ UNCHANGED ops

\* The worker drops the token nobody can receive and the OS refuses the
\* release.
WorkerSendReleaseFails(a) ==
    /\ acq[a].pc = "completed"
    /\ acq[a].caller = "cancelled"
    /\ acq[a].token = "armed"
    /\ faults < MaxFaults
    /\ acq' = [acq EXCEPT ![a] = finished([LockGuard_drop_release_fails(@)
                                  EXCEPT !.pc = "done", !.worker = "ended"])]
    /\ lockTable' = release_refused(lockTable, acq[a].cont, a, container)
    /\ faults' = faults + 1
    /\ UNCHANGED <<container, ops>>

\* Guard::release whose native release fails: the file was taken out of the
\* guard, `?` returns the error and the file goes with the call; the drop of
\* the guard finds no file and does nothing.
Guard_release_fails(s, lt) ==
    LET taken == [s EXCEPT !.guard = "released", !.nRel = @ + 1]
    IN  Guard_drop(taken, lt)

\* release() on a guard and the OS refuses the release.
ReleaseGuardFails(a) ==
    /\ acq[a].pc = "guard"
    /\ acq[a].owned
    /\ faults < MaxFaults
    /\ LET cont == [container EXCEPT ![acq[a].cont] = "closed"]
           d    == Guard_release_fails(acq[a], lockTable)
       IN  /\ acq' = [acq EXCEPT ![a] = finished(d.s)]
           /\ container' = cont
           /\ lockTable' = release_refused(d.lt, acq[a].cont, a, cont)
    /\ faults' = faults + 1
    /\ UNCHANGED ops

NextReleaseFails ==
    \/ Next
    \/ \E a \in Slot : DropGuardReleaseFails(a)
    \/ \E a \in Slot : WorkerSendReleaseFails(a)
    \/ \E a \in Slot : ReleaseGuardFails(a)

ReleaseFailsSpec == Init /\ [][NextReleaseFails]_vars

\* The blocking-task pool runs every spawned worker: a worker that can take
\* its next step takes it, and a thread asleep in the native call is woken
\* when the lock can be granted.
Fairness ==
    \A a \in Slot :
        /\ WF_vars(Spawn(a))
        /\ WF_vars(WorkerAcquire(a))
        /\ WF_vars(Wake(a))
        /\ WF_vars(WorkerSend(a))

FairSpec == Spec /\ Fairness

\* A caller that keeps awaiting is polled again once the channel holds its
\* result.
CallerFairness == \A a \in Slot : WF_vars(Recv(a))

AwaitSpec == FairSpec /\ CallerFairness

----------------------------------------------------------------------------
(* Properties.                                                             *)

\* A guard of slot a is alive.
GuardAlive(a) == acq[a].pc = "guard"

\* The native acquire of slot a is granted in this step.
Granted(a) ==
    /\ acq[a].pc \in {"idle", "done", "dispatched", "native"}
    /\ acq'[a].pc \in {"completed", "guard"}
    /\ acq'[a].res = "Ok"

\* Container c does not stand in the way: under lock table lt a non-blocking
\* request of either mode through any other handle is served, unless a third
\* handle holds a lock.
NotInTheWay(lt, c) ==
    /\ lt[c] = "none"
    /\ \A d \in Cont \ {c}, W \in BOOLEAN :
          \/ compatible_unix_lock(lt, d, FlockOperation(W, FALSE)).ret = "Ok"
          \/ \E e \in Cont \ {c, d} : lt[e] # "none"

\* C1: every successful native acquisition is released exactly once: never
\* while its token or guard is alive, once when the acquisition is over,
\* never twice, and never without an acquisition.
C1_ExactlyOneRelease ==
    \A a \in Slot :
        /\ acq[a].nAcq <= 1
        /\ acq[a].nRel <= acq[a].nAcq
        /\ (acq[a].token = "armed" \/ acq[a].guard = "alive") => acq[a].nRel = 0
        /\ acq[a].pc = "done" => acq[a].nRel = acq[a].nAcq

\* One acquisition ended by the drop of an unconsumed token, another by the
\* drop of its guard, each released once.
C1_Witness ==
    \E a, b \in Slot :
        /\ acq[a].pc = "done" /\ acq[a].token = "disposed" /\ acq[a].nRel = 1
        /\ acq[b].pc = "done" /\ acq[b].guard = "dropped" /\ acq[b].nRel = 1

\* C2: while a write guard is alive on one container, no guard is alive on
\* any other container.
C2_WriteGuardExcludes ==
    \A a, b \in Slot :
        (GuardAlive(a) /\ GuardAlive(b) /\ acq[a].cont # acq[b].cont)
            => (~acq[a].write /\ ~acq[b].write)

\* C3: when a token is dropped unconsumed (the caller gave up the future),
\* the drop releases the lock: the file is left unlocked for other handles,
\* and no guard was ever handed out for that acquisition.
C3_CancelledTokenReleases ==
    /\ [](\A a \in Slot :
            (acq[a].pc = "done" /\ acq[a].caller = "cancelled" /\ acq[a].nAcq = 1)
                => (acq[a].token = "disposed" /\ acq[a].guard = "none"
                    /\ acq[a].nRel = 1))
    /\ [][\A a \in Slot :
            (acq[a].token = "armed" /\ acq'[a].token = "disposed")
                => NotInTheWay(lockTable', acq[a].cont)]_vars

\* A cancelled acquisition whose token was dropped, and a write guard
\* obtained afterwards through another handle.
C3_Witness ==
    \E a, b \in Slot :
        /\ acq[a].pc = "done" /\ acq[a].caller = "cancelled"
        /\ acq[a].token = "disposed"
        /\ GuardAlive(b) /\ acq[b].write /\ acq[b].cont # acq[a].cont
        /\ lockTable[acq[b].cont] = "exclusive"

\* C4: an exclusive acquisition, blocking or not, is granted only when no
\* guard of either mode is alive on another container; a non-blocking one
\* attempted while such a guard is alive fails.
C4_WriteWaitsForGuards ==
    [][\A a \in Slot :
          (Granted(a) /\ acq'[a].write)
              => ~\E b \in Slot :
                    b # a /\ GuardAlive(b) /\ acq[b].cont # acq'[a].cont]_vars

\* C5: a non-blocking shared acquisition is not granted while a write guard
\* is alive on another container.
C5_TryReadBlockedByWriteGuard ==
    [][\A a \in Slot :
          (Granted(a) /\ ~acq'[a].write /\ ~acq'[a].block)
              => ~\E b \in Slot :
                    /\ b # a /\ GuardAlive(b) /\ acq[b].write
                    /\ acq[b].cont # acq'[a].cont]_vars

\* C6: a non-blocking exclusive acquisition is not granted while a read
\* guard is alive on another container.
C6_TryWriteBlockedByReadGuards ==
    [][\A a \in Slot :
          (Granted(a) /\ acq'[a].write /\ ~acq'[a].block)
              => ~\E b \in Slot :
                    /\ b # a /\ GuardAlive(b) /\ ~acq[b].write
                    /\ acq[b].cont # acq'[a].cont]_vars

\* C7: when a guard of either mode is dropped (or released), the lock of its
\* container is fully released: a non-blocking acquisition of either mode
\* through another handle is then served.
C7_DropReleases ==
    [][\A a \in Slot :
          (GuardAlive(a) /\ acq'[a].pc = "done")
              => NotInTheWay(lockTable', acq[a].cont)]_vars

\* A guard was dropped, and a write guard was obtained afterwards through
\* another handle.
C7_Witness ==
    \E a, b \in Slot :
        /\ acq[a].pc = "done" /\ acq[a].guard = "dropped"
        /\ GuardAlive(b) /\ acq[b].write /\ acq[b].cont # acq[a].cont
        /\ lockTable[acq[b].cont] = "exclusive"

\* The owned call of slot a ends in this step with an error for its caller.
OwnedFailure(a) ==
    /\ acq'[a] # acq[a]
    /\ acq'[a].pc = "done" /\ acq'[a].owned
    /\ acq'[a].caller = "returned" /\ acq'[a].guard = "none"

DupFailure(a) ==
    /\ ops' = ops + 1
    /\ a = LowestFree
    /\ acq'[a].res = ErrorKind("EMFILE")

\* C9: when the duplication of the handle fails the acquisition ends there:
\* no worker is spawned, the native acquire is not called, the lock table
\* and the containers are unchanged, and the caller has the error and the
\* container back.
C9_DupFailureEndsAcquisition ==
    /\ [](\A a \in Slot :
            acq[a].res = ErrorKind("EMFILE")
                => /\ acq[a].pc = "done" /\ acq[a].caller = "returned"
                   /\ acq[a].worker = "none" /\ acq[a].nAcq = 0
                   /\ acq[a].token = "none" /\ acq[a].guard = "none"
                   /\ acq[a].dup = "none")
    /\ [][\A a \in Slot :
            DupFailure(a)
                => /\ lockTable' = lockTable
                   /\ container' = container
                   /\ container'[acq'[a].cont] = "open"]_vars

\* A duplication failed on a container while a guard from another container
\* was alive and its lock recorded.
C9_Witness ==
    \E a, b \in Slot :
        /\ acq[a].res = ErrorKind("EMFILE") /\ acq[a].pc = "done"
        /\ GuardAlive(b) /\ acq[b].cont # acq[a].cont
        /\ lockTable[acq[b].cont] # "none"

\* The next step of a pending asynchronous acquisition that is its own:
\* none of them needs a step of another holder.
OwnStep(a) ==
    Spawn(a) \/ WorkerAcquire(a) \/ WorkerSend(a) \/ Recv(a)

\* C10: a non-blocking acquisition never waits for another holder: it is
\* never asleep in the native call, a synchronous one is over when the call
\* returns, and an asynchronous one that is still awaited can always take
\* its own next step, whatever the lock table holds.
C10_TryNeverWaits ==
    \A a \in Slot :
        (acq[a].pc \notin {"idle", "done", "guard"} /\ ~acq[a].block)
            => /\ acq[a].pc # "native"
               /\ acq[a].async
               /\ acq[a].caller = "awaiting" => ENABLED OwnStep(a)

\* A non-blocking acquisition came back with WouldBlock while the guard in
\* its way is still alive.
C10_Witness ==
    \E a, b \in Slot :
        /\ acq[a].pc = "done" /\ acq[a].res = "WouldBlock"
        /\ acq[a].caller = "returned"
        /\ GuardAlive(b) /\ acq[b].cont # acq[a].cont

\* C11: a blocking acquisition never gives the interrupted-by-signal outcome
\* of the native call to its caller: the request is made again.
C11_InterruptedNeverReturned ==
    \A a \in Slot :
        ~(acq[a].caller = "returned" /\ acq[a].res = ErrorKind("EINTR"))

\* The native request of slot a is made in this step and fails, and the
\* failure is the OS's answer to the request, not an injected error.
NativeFailure(a) ==
    /\ faults' = faults
    /\ \/ ops' = ops + 1 /\ a = LowestFree /\ acq'[a].pc = "done"
       \/ /\ acq[a].pc = "dispatched" /\ acq'[a].pc = "completed"
          /\ acq'[a].res # "Ok"

\* C12: under non-blocking policy every native contention outcome, in
\* whichever shape the platform reports it (EWOULDBLOCK or the
\* already-exists shape on Unix, the lock-violation code on Windows), is
\* the error kind WouldBlock when it reaches the caller, on the synchronous
\* and on the asynchronous entry points.
C12_ContentionIsWouldBlock ==
    /\ windows_map_err("ERROR_LOCK_VIOLATION", FALSE) = "WouldBlock"
    /\ [](\A a \in Slot : acq[a].res # ErrorKind("EEXIST"))
    /\ [][\A a \in Slot :
            NativeFailure(a)
                => /\ acq'[a].res = "WouldBlock"
                   /\ Conflicts(lockTable', acq'[a].cont,
                                IF acq'[a].write THEN "exclusive" ELSE "shared")
                      \/ acq'[a].pc = "done"]_vars

\* An asynchronous non-blocking acquisition was refused by contention and
\* its caller received WouldBlock while the holder's guard is alive.
C12_Witness ==
    \E a, b \in Slot :
        /\ acq[a].pc = "done" /\ acq[a].res = "WouldBlock"
        /\ acq[a].worker = "ended" /\ acq[a].caller = "returned"
        /\ GuardAlive(b) /\ acq[b].cont # acq[a].cont
        /\ lockTable[acq[b].cont] # "none"

\* The native request of slot a is made in this step and the OS raises an
\* error that is not contention.
FaultedRequest(a) ==
    /\ faults' = faults + 1
    /\ acq'[a].res # ErrorKind("EMFILE")
    /\ \/ ops' = ops + 1 /\ a = LowestFree /\ acq'[a].pc = "done"
       \/ acq[a].pc = "dispatched" /\ acq'[a].pc = "completed"

\* C13: a native error that is not contention reaches the caller with its
\* own kind, never as WouldBlock (permission denied stays PermissionDenied
\* under non-blocking policy, on Unix and on Windows); the failed request
\* produces no token and no guard, acquires nothing and leaves the lock
\* table as it was.
C13_OtherErrorsKeepTheirKind ==
    /\ windows_map_err("ERROR_ACCESS_DENIED", FALSE) = "PermissionDenied"
    /\ [][\A a \in Slot :
            FaultedRequest(a)
                => /\ acq'[a].res \in {ErrorKind("EACCES"), ErrorKind("EINTR")}
                   /\ (acq[a].pc = "dispatched" /\ ~acq[a].block)
                         => acq'[a].res = ErrorKind("EACCES")
                   /\ acq'[a].token = "none" /\ acq'[a].guard = "none"
                   /\ acq'[a].nAcq = 0
                   /\ lockTable' = lockTable]_vars
    /\ [][\A a \in Slot :
            (acq[a].pc = "sent" /\ acq'[a].pc = "done" /\ acq[a].res # "Ok")
                => /\ acq'[a].res = acq[a].res
                   /\ acq'[a].guard = "none"
                   /\ lockTable' = lockTable]_vars

\* A non-blocking asynchronous request was refused with permission denied;
\* the error is on its way to the caller and the file is not locked.
C13_Witness ==
    \E a \in Slot :
        /\ acq[a].pc = "sent" /\ ~acq[a].block /\ acq[a].caller = "awaiting"
        /\ acq[a].res = ErrorKind("EACCES")
        /\ lockTable[acq[a].cont] = "none"

\* The worker of slot a is in flight for a caller that gave up.
Abandoned(a) ==
    /\ acq[a].caller = "cancelled"
    /\ acq[a].pc \in {"dispatched", "native", "completed"}

\* C14: cancelling the awaiting future after dispatch does not stop the
\* worker.  The cancellation changes nothing of the worker, its handle or
\* the lock table; the abandoned worker keeps its duplicated handle open
\* and still makes the native request (and stays in it while the lock is
\* contended); the handle is closed and a lock it obtained released only by
\* the worker, when the native call has returned and the result is dropped.
C14_CancelDoesNotStopWorker ==
    /\ [][\A a \in Slot :
            (acq[a].caller = "awaiting" /\ acq'[a].caller = "cancelled"
                /\ acq[a].pc # "sent")
                => /\ acq'[a] = [acq[a] EXCEPT !.caller = "cancelled"]
                   /\ lockTable' = lockTable]_vars
    /\ [](\A a \in Slot :
            Abandoned(a)
                => /\ acq[a].worker = "spawned"
                   /\ acq[a].pc # "completed" => acq[a].dup = "open"
                   /\ acq[a].token = "armed" => acq[a].dup = "open")
    /\ [][\A a \in Slot :
            (Abandoned(a) /\ acq[a].dup = "open" /\ acq'[a].dup = "closed")
                => \/ acq[a].pc = "completed" /\ acq'[a].pc = "done"
                      /\ acq'[a].worker = "ended"
                   \/ acq[a].pc = "dispatched" /\ acq'[a].pc = "completed"
                      /\ acq'[a].res # "Ok"]_vars
    /\ [][\A a \in Slot :
            (Abandoned(a) /\ acq[a].token = "armed" /\ acq'[a].token # "armed")
                => /\ acq[a].pc = "completed" /\ acq'[a].pc = "done"
                   /\ acq'[a].token = "disposed" /\ acq'[a].nRel = 1]_vars
    /\ \A a \in Slot :
          (Abandoned(a) /\ acq[a].pc = "dispatched")
              ~> (acq[a].pc # "dispatched")
    /\ \A a \in Slot :
          (Abandoned(a) /\ acq[a].pc = "completed") ~> (acq[a].pc = "done")

\* A caller gave up a blocking acquisition whose worker is asleep in the
\* native call behind another container's guard.
C14_Witness ==
    \E a, b \in Slot :
        /\ acq[a].caller = "cancelled" /\ acq[a].pc = "native"
        /\ acq[a].worker = "spawned" /\ acq[a].dup = "open"
        /\ GuardAlive(b) /\ acq[b].cont # acq[a].cont

\* C15: at most one guard obtained from the same container is alive at any
\* time.
C15_OneGuardPerContainer ==
    \A a, b \in Slot :
        (GuardAlive(a) /\ GuardAlive(b) /\ acq[a].cont = acq[b].cont) => a = b

\* C16: a live read guard gives its holder no operation through which the
\* file can be written; a live write guard gives operations to read and to
\* write.
C16_ReadGuardCannotWrite ==
    \A a \in Slot :
        GuardAlive(a)
            => IF acq[a].write
               THEN /\ \E op \in GuardOps(TRUE) : WritesFile(op)
                    /\ \E op \in GuardOps(TRUE) : ReadsFile(op)
               ELSE \A op \in GuardOps(FALSE) : ~WritesFile(op)

\* The release made for slot a in this step by the drop of its guard or
\* token is refused by the OS.
ReleaseRefused(a) ==
    /\ faults' = faults + 1
    /\ acq'[a].nRel = acq[a].nRel + 1
    /\ acq'[a].guard # "released"

NewCall(a) == ops' = ops + 1 /\ a = LowestFree

\* C18: a token leaves the armed state in exactly two ways.  Defused: no
\* release is made and the lock table is unchanged; the token stays defused
\* and the only release of the acquisition is the guard's.  Dropped while
\* armed: one release is made and the lock is gone.  A token is armed only
\* by a successful native acquire (a synchronous owned call arms and defuses
\* it within the call).
C18_TokenTwoWaysOut ==
    /\ [](\A a \in Slot :
            /\ acq[a].token = "disposed"
                  => acq[a].nRel = 1 /\ acq[a].guard = "none"
            /\ acq[a].token = "defused"
                  => /\ acq[a].guard # "none"
                     /\ acq[a].nRel = IF acq[a].guard = "alive" THEN 0 ELSE 1
            /\ acq[a].token = "armed"
                  => acq[a].nAcq = 1 /\ acq[a].nRel = 0 /\ acq[a].dup = "open")
    /\ [][\A a \in Slot :
            (acq'[a].token # acq[a].token /\ ~NewCall(a))
                => \/ /\ acq[a].token = "none" /\ acq'[a].token = "armed"
                      /\ acq'[a].nAcq = acq[a].nAcq + 1
                   \/ /\ acq[a].token = "armed" /\ acq'[a].token = "defused"
                      /\ acq'[a].nRel = acq[a].nRel
                      /\ lockTable' = lockTable
                   \/ /\ acq[a].token = "none" /\ acq'[a].token = "defused"
                      /\ acq'[a].nAcq = acq[a].nAcq + 1
                      /\ acq'[a].nRel = acq[a].nRel
                      /\ acq'[a].guard = "alive"
                      /\ lockTable'[acq[a].cont] # "none"
                   \/ /\ acq[a].token = "armed" /\ acq'[a].token = "disposed"
                      /\ acq'[a].nRel = acq[a].nRel + 1
                      /\ lockTable'[acq[a].cont] = "none"]_vars

\* One token was dropped while armed, another was defused into a guard
\* that is alive and holds the lock.
C18_Witness ==
    \E a, b \in Slot :
        /\ acq[a].token = "disposed" /\ acq[a].nRel = 1
        /\ acq[b].token = "defused" /\ acq[b].guard = "alive"
        /\ acq[b].nRel = 0 /\ lockTable[acq[b].cont] # "none"

\* A guard or an armed token of mode conflicting with WRITE lives on a
\* container other than c.
HolderElsewhere(c, WRITE) ==
    \E b \in Slot :
        /\ acq[b].cont # c
        /\ acq[b].guard = "alive" \/ acq[b].token = "armed"
        /\ WRITE \/ acq[b].write

\* C19: a blocking asynchronous acquisition raced against a timer.  When the
\* timer fires while a conflicting guard is alive on another container the
\* caller is told WouldBlock and never gets a guard from that attempt; a
\* worker it left asleep is not granted the lock while the conflict lasts.
\* When the acquisition is tried again on the same container after the
\* holder's guard is gone, its native request is granted at once and the
\* guard is delivered, whatever the worker of the timed-out attempt does.
C19_TimeoutThenRetry ==
    /\ [][\A a \in Slot :
            (/\ acq[a].async /\ acq[a].block
             /\ acq[a].caller = "awaiting" /\ acq'[a].caller = "cancelled"
             /\ \E b \in Slot :
                   /\ GuardAlive(b) /\ acq[b].cont # acq[a].cont
                   /\ lockTable[acq[b].cont] # "none"
                   /\ acq[a].write \/ acq[b].write)
                => /\ timeout_result(acq'[a]) = "WouldBlock"
                   /\ acq'[a].guard = "none"]_vars
    /\ [](\A a \in Slot : acq[a].caller = "cancelled" => acq[a].guard = "none")
    /\ [][\A a \in Slot :
            (/\ acq[a].pc = "dispatched" /\ acq'[a].pc # "dispatched"
             /\ acq[a].block /\ faults' = faults
             /\ ~HolderElsewhere(acq[a].cont, acq[a].write))
                => /\ acq'[a].pc = "completed" /\ acq'[a].res = "Ok"
                   /\ acq'[a].token = "armed"]_vars
    /\ [][\A a \in Slot :
            (acq[a].pc = "sent" /\ acq[a].res = "Ok" /\ acq'[a].pc # "sent"
                /\ acq'[a].caller # "cancelled")
                => /\ GuardAlive(a)'
                   /\ timeout_result(acq'[a]) = "Ok"]_vars

\* A timed blocking write was given up while its worker was asleep behind
\* another container's guard (the worker still is in the native call), and
\* the same acquisition tried again on the same container, after that guard
\* was dropped, has delivered its guard.
C19_Witness ==
    \E a, b \in Slot :
        /\ acq[b].caller = "cancelled" /\ timeout_result(acq[b]) = "WouldBlock"
        /\ acq[b].block /\ acq[b].write /\ acq[b].pc = "native"
        /\ acq[a].cont = acq[b].cont
        /\ GuardAlive(a) /\ acq[a].async /\ acq[a].block /\ acq[a].write
        /\ timeout_result(acq[a]) = "Ok"

\* The lock is asked for on another container than the one a guard is held
\* on: the second acquirer of the file.
SecondAcquirer(a, d) ==
    /\ GuardAlive(a)
    /\ d # acq[a].cont
    /\ lockTable[acq[a].cont] # "none"

AsyncOrder ==
    {<<"idle", "duplicated">>, <<"done", "duplicated">>,
     <<"duplicated", "dispatched">>,
     <<"dispatched", "native">>, <<"dispatched", "completed">>,
     <<"native", "completed">>,
     <<"completed", "sent">>, <<"completed", "done">>,
     <<"sent", "guard">>, <<"sent", "done">>,
     <<"guard", "done">>}

\* The native call of slot a returns in this step, with a lock or an error.
NativeReturns(a) ==
    \/ acq'[a].nAcq > acq[a].nAcq
    \/ acq[a].res = "none" /\ acq'[a].res # "none"

\* C21: an asynchronous acquisition goes through its stages in order and
\* skips none: every change of stage is one of AsyncOrder; the native call
\* returns only in the worker (spawned, not ended), on the open duplicated
\* handle, in the dispatched stage; the result is sent only from the
\* completed stage, with the native result in hand (a token when it is Ok);
\* and the caller gets a result only from the sent stage.
C21_AsyncStagesInOrder ==
    /\ [][\A a \in Slot :
            (acq[a].pc # acq'[a].pc /\ (acq[a].async \/ acq'[a].async))
            => <<acq[a].pc, acq'[a].pc>> \in AsyncOrder]_vars
    /\ [][\A a \in Slot :
            (acq[a].async /\ NativeReturns(a))
            => /\ acq[a].pc \in {"dispatched", "native"}
               /\ acq[a].worker = "spawned"
               /\ acq[a].dup = "open"
               /\ acq'[a].pc = "completed"]_vars
    /\ [][\A a \in Slot :
            (acq[a].pc # "sent" /\ acq'[a].pc = "sent")
            => /\ acq[a].pc = "completed"
               /\ acq[a].res # "none"
               /\ acq[a].res = "Ok" => acq[a].token = "armed"]_vars
    /\ [][\A a \in Slot :
            (acq[a].async /\ acq[a].caller = "awaiting"
             /\ acq'[a].caller = "returned")
            => acq[a].pc = "sent"]_vars

\* An asynchronous acquisition was delivered as a guard, and another one
\* was delivered as an error.
C21_Witness ==
    \E a \in Slot :
        /\ acq[a].async /\ acq[a].pc = "guard" /\ acq[a].block
        /\ acq[a].worker = "ended" /\ acq[a].token = "defused"
        /\ \E b \in Slot : acq[b].pc = "done" /\ acq[b].res = "WouldBlock"
                             /\ acq[b].worker = "ended"
                             /\ acq[b].caller = "returned"

\* The acquisition of slot a succeeded and its release was not made yet.
Unreleased(a) == acq[a].nAcq > acq[a].nRel

\* C22: each successful acquisition that was not released yet has exactly
\* one owner that will release it: an armed token (in the worker, in the
\* channel or with the caller before defuse) or a live guard, never both
\* and never neither; and no acquisition is released more often than made.
C22_OneOwnerPerAcquisition ==
    \A a \in Slot :
        /\ acq[a].nRel <= acq[a].nAcq
        /\ acq[a].nAcq <= 1
        /\ ~(acq[a].token = "armed" /\ acq[a].guard = "alive")
        /\ Unreleased(a) <=> (acq[a].token = "armed" \/ acq[a].guard = "alive")

\* One acquisition is owned by an armed token in the channel while another
\* one is owned by a guard built from a defused token.
C22_Witness ==
    \E a, b \in Slot :
        /\ Unreleased(a) /\ acq[a].token = "armed" /\ acq[a].pc = "sent"
        /\ Unreleased(b) /\ acq[b].guard = "alive" /\ acq[b].token = "defused"

\* C23: every entry point wraps a successful native acquire in a token
\* before a guard is built, and a guard is built only by defusing that
\* token: a live guard's acquisition has a defused token, and a guard comes
\* alive only in a step that defuses the token of its acquisition.
C23_GuardOnlyFromToken ==
    /\ [](\A a \in Slot : acq[a].guard = "alive" => acq[a].token = "defused")
    /\ [][\A a \in Slot :
            (acq[a].guard # "alive" /\ acq'[a].guard = "alive")
            => (acq[a].token # "defused" /\ acq'[a].token = "defused")]_vars

\* The lock mode a request of slot record s asks for.
ModeOf(s) == IF s.write THEN "exclusive" ELSE "shared"

\* C24: building a guard from a token closes the duplicated handle without
\* a release, and leaves the lock as it is, held through the container's
\* own handle.  A step that defuses an armed token closes the duplicate,
\* makes no release, builds the guard, leaves the container's handle open
\* and changes no entry of the lock table; a call that arms and defuses in
\* one step leaves the lock it just acquired in the table.
C24_DefuseKeepsLock ==
    [][\A a \in Slot :
         /\ (acq[a].token = "armed" /\ acq'[a].token = "defused")
            => /\ acq[a].dup = "open" /\ acq'[a].dup = "closed"
               /\ acq'[a].nRel = acq[a].nRel
               /\ acq'[a].guard = "alive"
               /\ container'[acq[a].cont] # "closed"
               /\ lockTable' = lockTable
         /\ (NewCall(a) /\ acq'[a].token = "defused")
            => /\ acq'[a].dup = "closed"
               /\ acq'[a].nRel = 0
               /\ acq'[a].guard = "alive"
               /\ container'[acq'[a].cont] # "closed"
               /\ lockTable'[acq'[a].cont] = ModeOf(acq'[a])]_vars

\* A guard built from a token delivered through the channel holds an
\* exclusive lock: the duplicate is closed, no release was made and the
\* lock table records the lock for the container's open file.
C24_Witness ==
    \E a \in Slot :
        /\ acq[a].async /\ acq[a].write /\ ~acq[a].owned
        /\ acq[a].guard = "alive" /\ acq[a].token = "defused"
        /\ acq[a].dup = "closed" /\ acq[a].nRel = 0
        /\ container[acq[a].cont] = "open"
        /\ lockTable[acq[a].cont] = "exclusive"

\* C25: every duplicated handle is closed once its acquisition is over,
\* whatever the outcome: a worker whose native call failed has closed it
\* when it completes, a delivered success closed it when the token was
\* defused into the guard, a disposed token took it along after its
\* release.  No slot that is a guard or is finished has an open duplicate,
\* so once all acquisitions are over and all guards dropped, the only open
\* handles are the containers' own.
C25_DuplicatesClosed ==
    \A a \in Slot :
        /\ acq[a].pc \in {"guard", "done", "idle"} => acq[a].dup # "open"
        /\ (acq[a].pc \in {"completed", "sent"} /\ acq[a].res # "Ok")
              => acq[a].dup = "closed"
        /\ acq[a].token \in {"defused", "disposed"} => acq[a].dup = "closed"
        /\ acq[a].dup = "open" => acq[a].nRel = 0

\* All acquisitions are over and no guard is left: one was cancelled after
\* its worker had the lock (token disposed after its release), one failed
\* in the worker and was delivered as an error; no duplicate is open.
C25_Witness ==
    /\ \A a \in Slot : acq[a].pc = "done" /\ acq[a].dup = "closed"
    /\ \E a, b \in Slot :
          /\ acq[a].caller = "cancelled" /\ acq[a].token = "disposed"
          /\ acq[a].nRel = 1
          /\ acq[b].caller = "returned" /\ acq[b].worker = "ended"
          /\ acq[b].res \notin {"Ok", "none"}

\* The lock table records, for the open file of slot a's container, a lock
\* of at least the mode slot a asked for.
LockRecorded(a) ==
    \/ lockTable[acq[a].cont] = "exclusive"
    \/ ~acq[a].write /\ lockTable[acq[a].cont] = "shared"

\* C26: whenever a guard is alive, the lock table records a lock of at
\* least the guard's mode for its container's open file; in particular the
\* drop of one of two read guards obtained from the same container leaves
\* the lock recorded for the other.
C26_LiveGuardHoldsLock ==
    \A a \in Slot : GuardAlive(a) => LockRecorded(a)

\* Slot a is a guard obtained from its container after the acquisition of
\* slot b on the same container was abandoned with its worker in flight: a
\* write or owned guard cannot be obtained while b's caller still borrows
\* the container, so its call came after the cancellation.
LaterGuard(a, b) ==
    /\ GuardAlive(a)
    /\ acq[a].write \/ acq[a].owned
    /\ Abandoned(b)
    /\ acq[b].cont = acq[a].cont

\* C27: after an asynchronous acquisition on a container was abandoned
\* with its worker in flight, a guard obtained later from the same
\* container keeps its lock until it is dropped: no step of the abandoned
\* worker (its late native acquire, the drop of its token) changes the lock
\* recorded for the container's open file while the guard stays alive.
C27_AbandonedWorkerHarmless ==
    [][\A a, b \in Slot :
         (LaterGuard(a, b) /\ GuardAlive(a)' /\ acq'[b] # acq[b])
         => lockTable'[acq[a].cont] = lockTable[acq[a].cont]]_vars

\* The worker of slot a ends in this step.
WorkerEnds(a) == acq[a].worker = "spawned" /\ acq'[a].worker = "ended"

\* C28: the worker sends one result on every path before it ends, so a
\* caller that keeps awaiting never finds the channel closed.  A worker
\* ends only with the native result in hand, and when its caller still
\* awaits, that result (token or error) is in the channel as the worker
\* ends; an awaiting caller whose worker has ended always has the result
\* waiting for it; a result in the channel stays there until the caller
\* takes it or gives up; and a worker that has ended does nothing more.
C28_WorkerAlwaysSends ==
    /\ [][\A a \in Slot :
            WorkerEnds(a)
            => /\ acq[a].pc = "completed" /\ acq[a].res # "none"
               /\ acq[a].caller = "awaiting"
                    => acq'[a] = [acq[a] EXCEPT !.pc = "sent",
                                                !.worker = "ended"]]_vars
    /\ [](\A a \in Slot :
            (acq[a].worker = "ended" /\ acq[a].caller = "awaiting")
            => /\ acq[a].pc = "sent"
               /\ acq[a].res # "none"
               /\ acq[a].res = "Ok" <=> acq[a].token = "armed")
    /\ [][\A a \in Slot :
            (acq[a].pc = "sent" /\ acq'[a] # acq[a])
            => /\ acq[a].caller = "awaiting"
               /\ acq'[a].caller \in {"returned", "cancelled"}]_vars
    /\ [][\A a \in Slot :
            (acq[a].worker = "ended" /\ acq'[a].worker # "ended")
            => NewCall(a)]_vars

\* Two callers await with their workers ended: one has a token waiting in
\* the channel, the other the error of a failed native call.
C28_Witness ==
    \E a, b \in Slot :
        /\ acq[a].pc = "sent" /\ acq[a].worker = "ended"
        /\ acq[a].caller = "awaiting" /\ acq[a].res = "Ok"
        /\ acq[b].pc = "sent" /\ acq[b].worker = "ended"
        /\ acq[b].caller = "awaiting" /\ acq[b].res \notin {"Ok", "none"}

\* The native call of slot a fails in this step, by contention or by any
\* other OS error: a synchronous call that ends with an error, or a worker
\* that completes with one.
AcquisitionFails(a) ==
    \/ /\ NewCall(a) /\ acq'[a].pc = "done"
       /\ acq'[a].res \notin {"Ok", ErrorKind("EMFILE")}
    \/ /\ acq[a].pc = "dispatched" /\ acq'[a].pc = "completed"
       /\ acq'[a].res # "Ok"

\* C29: an acquisition that fails (WouldBlock or any other native error)
\* creates no token and makes no release, and leaves the lock table exactly
\* as it was before the call, so that the locks of other guards, those of
\* the same container included, are not affected.
C29_FailureLeavesLockTable ==
    [][\A a \in Slot :
         AcquisitionFails(a)
         => /\ acq'[a].token = "none"
            /\ acq'[a].nAcq = 0 /\ acq'[a].nRel = 0
            /\ lockTable' = lockTable]_vars

\* release() is called on the guard of slot a in this step.
ReleaseCalled(a) == GuardAlive(a) /\ acq'[a].guard = "released"

\* C30: release() on a guard makes the native release once and hands the
\* file back when it succeeded; whether it succeeded or failed, the drop of
\* the guard that follows makes no second native release.  The call counts
\* one release, and the acquisition is over with it; on success the lock is
\* gone and the container is back with the caller, on failure the file is
\* not handed back; a released guard never has more than the one release.
C30_ReleaseOnceThenInertDrop ==
    /\ [][\A a \in Slot :
            ReleaseCalled(a)
            => /\ acq'[a].nRel = acq[a].nRel + 1
               /\ acq'[a].pc = "done"
               /\ faults' = faults
                    => /\ lockTable'[acq[a].cont] = "none"
                       /\ container'[acq[a].cont] = "open"
               /\ faults' # faults => container'[acq[a].cont] = "closed"]_vars
    /\ [](\A a \in Slot :
            acq[a].guard = "released" => acq[a].nRel = 1 /\ acq[a].pc = "done")
    /\ [][\A a \in Slot :
            (acq[a].guard = "released" /\ acq'[a].guard = "released")
            => acq'[a].nRel = acq[a].nRel]_vars

\* One guard was released with success and its file handed back, another
\* guard's release was refused by the OS; each counts one release.
C30_Witness ==
    \E a, b \in Slot :
        /\ acq[a].guard = "released" /\ acq[a].nRel = 1
        /\ container[acq[a].cont] = "open"
        /\ acq[b].guard = "released" /\ acq[b].nRel = 1
        /\ container[acq[b].cont] = "closed"
        /\ faults = 1

\* C31: the four (mode, policy) pairs select four different native
\* operations, each of the mode and the policy asked for, on Unix (flock
\* operation) and on Windows (LockFileEx flags); and no request acts as one
\* of the other mode or policy: a granted request leaves a lock of its own
\* mode recorded for its container's file, only a blocking request sleeps
\* in the native call, and a blocking request is never refused by
\* contention.
C31_OperationMatchesRequest ==
    /\ [](\A W \in BOOLEAN, B \in BOOLEAN :
            /\ OpMode(FlockOperation(W, B)) = (IF W THEN "exclusive" ELSE "shared")
            /\ OpNonBlocking(FlockOperation(W, B)) = ~B
            /\ ("LOCKFILE_EXCLUSIVE_LOCK" \in LockFileExFlags(W, B)) = W
            /\ ("LOCKFILE_FAIL_IMMEDIATELY" \in LockFileExFlags(W, B)) = ~B
            /\ \A W2 \in BOOLEAN, B2 \in BOOLEAN :
                  (<<W, B>> # <<W2, B2>>)
                  => /\ FlockOperation(W, B) # FlockOperation(W2, B2)
                     /\ LockFileExFlags(W, B) # LockFileExFlags(W2, B2))
    /\ [][\A a \in Slot :
            Granted(a) => lockTable'[acq'[a].cont] = ModeOf(acq'[a])]_vars
    /\ [](\A a \in Slot : acq[a].pc = "native" => acq[a].block)
    /\ [][\A a \in Slot :
            (acq[a].pc \in {"dispatched", "native"} /\ acq[a].block
             /\ acq'[a].pc = "completed" /\ faults' = faults)
            => acq'[a].res = "Ok"]_vars

\* A blocking write was granted the exclusive lock and holds its guard,
\* while a blocking read on the file's other handle sleeps behind it.
C31_Witness ==
    \E a, b \in Slot :
        /\ GuardAlive(a) /\ acq[a].write /\ acq[a].block
        /\ lockTable[acq[a].cont] = "exclusive"
        /\ acq[b].pc = "native" /\ ~acq[b].write /\ acq[b].block
        /\ acq[b].cont # acq[a].cont

\* A blocking acquisition is under way for slot a and its caller waits for
\* it: an asynchronous one between its first poll and the receipt of the
\* result, or a synchronous one asleep in the native call.
BlockingPending(a) ==
    /\ acq[a].block
    /\ acq[a].caller = "awaiting"
    /\ acq[a].pc \in {"duplicated", "dispatched", "native", "completed", "sent"}

\* Another handle of the file holds a lock that excludes the one slot a
\* asks for.
ConflictFor(a) == Conflicts(lockTable, acq[a].cont, ModeOf(acq[a]))

\* C32: with the lock manager, the worker and the awaiting caller scheduled
\* fairly, a blocking acquisition returns a guard once the conflicting
\* locks of the other handles are gone and stay gone: from every state in
\* which it is pending, it leads to its guard, unless a conflicting lock is
\* held on another handle, the caller gives up, or the OS refuses the
\* request for good (permission denied).
C32_BlockingEventuallyGuard ==
    \A a \in Slot :
        BlockingPending(a)
            ~> \/ GuardAlive(a)
               \/ ConflictFor(a)
               \/ acq[a].caller = "cancelled"
               \/ acq[a].res = ErrorKind("EACCES")

----------------------------------------------------------------------------
(* The calls a token's drop makes on its duplicated handle, one by one.    *)

\* A drop that lets the handle go before it asks for the release.
LockGuard_drop_calls_close_first(s) ==
    IF s.token = "armed" THEN <<"close", "release_lock_from_file">> ELSE <<>>

\* Drop for LockGuard: the handle is taken out of the token, the release
\* is called on a reference to it, and the handle is closed as it goes out
\* of scope at the end of the block.
LockGuard_drop_calls(s) ==
    IF s.token = "armed" THEN <<"release_lock_from_file", "close">> ELSE <<>>

\* One call on the duplicated handle of slot record st.s under lock table
\* st.lt.  A release through a closed handle is refused by the OS and
\* releases nothing; closing the handle takes the lock along only when it
\* is the last handle (`last`) of the open file description.
handle_call(call, st, last) ==
    IF call = "release_lock_from_file"
    THEN IF st.s.dup = "open"
         THEN [s  |-> [st.s EXCEPT !.nRel = @ + 1],
               lt |-> release_lock_blocking(st.lt, st.s.cont)]
         ELSE st
    ELSE [s  |-> [st.s EXCEPT !.dup = "closed"],
          lt |-> IF last THEN [st.lt EXCEPT ![st.s.cont] = "none"] ELSE st.lt]

====
